---- MODULE Spec2Model ----
(***************************************************************************)
(* Model of go-client.go: main() of the MCP tool-listing client.           *)
(*                                                                         *)
(* main is one sequential goroutine.  The model follows it statement by    *)
(* statement from flag.Parse (line 17) to the end of the process.  Calls   *)
(* into the go-mcp library and into the operating system are the only      *)
(* sources of nondeterminism: each call returns either a value or an       *)
(* error, as its Go signature allows.                                      *)
(*                                                                         *)
(* Text is a sequence of fragments, a line break being the fragment "\n",  *)
(* so that formatting and line splitting are computed, not assumed.        *)
(*                                                                         *)
(* Scope: the command line is well formed (no flag, or -url <address>);    *)
(* signals delivered to the process by the operating system are not        *)
(* modelled.                                                               *)
(***************************************************************************)
EXTENDS Integers, Sequences, FiniteSets, TLC

\* Largest number of tools the server returns in one listing.
MaxTools == 2

VARIABLES
    pc,               \* position of main
    mcpURL,           \* the -url flag variable (line 15)
    transportClient,  \* state of the value of line 23: "nil", "open", "closed"
    mcpClient,        \* state of the value of line 29: "nil", "open", "closed"
    err,              \* the err variable: Nil or the text of an error
    tools,            \* tools.Tools, the sequence the server returned
    logger,           \* the logger of line 42: "nil" or its configuration
    idx,              \* number of completed iterations of the range loop
    deferred,         \* stack of deferred calls of main
    stdout,           \* fragments written to standard output
    stderr,           \* records written by the standard logger
    exitCode,         \* -1 while the process runs, else its exit code
    calls             \* history: the library / OS calls made, in order

vars == <<pc, mcpURL, transportClient, mcpClient, err, tools, logger, idx,
          deferred, stdout, stderr, exitCode, calls>>

----------------------------------------------------------------------------
(* Values *)

Nil == <<>>

DefaultURL == "https://mcp-td1.swormlab.com/sse"

\* Values the -url flag can be given on the command line.
URLs == {DefaultURL, "mock://ok", "mock://unreachable"}

\* What the command line holds: no -url flag, or -url u.
CommandLines == {"no-flag"} \cup URLs

\* Errors the collaborators can return, as the text %v prints.
TransportErrors == {<<"invalid url">>}
ClientErrors    == {<<"connection refused">>, <<"handshake rejected">>}
ListErrors      == {<<"request error">>, <<"protocol error">>}

\* Tool names and descriptions a server can send.  A description is free
\* text and may span several lines.
Names        == {<<"A">>, <<"B">>}
Descriptions == {<<"d1">>, <<"d2">>, <<"first", "\n", "second">>}

ToolDescriptors == [Name : Names, Description : Descriptions]

ToolLists == UNION {[1..n -> ToolDescriptors] : n \in 0..MaxTools}

\* The format strings of the source, split at their verbs.
ConnectingFmt    == <<"Connecting to MCP server: ", "%s">>
TransportFailFmt == <<"Failed to create transport client: ", "%v">>
ClientFailFmt    == <<"Failed to create MCP client: ", "%v">>
ListFailFmt      == <<"Failed to list tools: ", "%v">>
ToolLineFmt      == <<"Name: ", "%s", " Description: ", "%s", "\n">>

Verbs == {"%s", "%v"}

----------------------------------------------------------------------------
(* Pure functions *)

\* fmt.Sprintf: each verb of the format is replaced by the next argument,
\* every other fragment is copied.
RECURSIVE Sprintf(_, _)
Sprintf(format, args) ==
    IF format = <<>> THEN <<>>
    ELSE IF Head(format) \in Verbs /\ args # <<>>
         THEN Head(args) \o Sprintf(Tail(format), Tail(args))
         ELSE <<Head(format)>> \o Sprintf(Tail(format), args)

\* log.(*Logger).Output: prefix, header (empty for flags 0), the message,
\* and a line break when the message does not end with one.
LoggerOutput(l, s) ==
    l.prefix \o (IF l.timestamps THEN <<"<timestamp> ">> ELSE <<>>) \o s
      \o (IF s = <<>> \/ s[Len(s)] # "\n" THEN <<"\n">> ELSE <<>>)

\* The calls of one operation in the history.
CallsOf(op) == {i \in DOMAIN calls : calls[i].op = op}
Succeeded(op) == \E i \in CallsOf(op) : calls[i].ok
Failed(op)    == \E i \in CallsOf(op) : ~calls[i].ok

Call(op, ok) == [op |-> op, ok |-> ok]

----------------------------------------------------------------------------
(* Initial state: main has run lines 15-16, the flag holds its default. *)

Init ==
    /\ pc = "flagParse"
    /\ mcpURL = DefaultURL
    /\ transportClient = "nil"
    /\ mcpClient = "nil"
    /\ err = Nil
    /\ tools = <<>>
    /\ logger = "nil"
    /\ idx = 0
    /\ deferred = <<>>
    /\ stdout = <<>>
    /\ stderr = <<>>
    /\ exitCode = -1
    /\ calls = <<>>

----------------------------------------------------------------------------
(* Helpers shared by the statements of main *)

\* log.Printf on the standard logger: one record on standard error.
LogPrintf(format, args) ==
    stderr' = Append(stderr, [fatal |-> FALSE, text |-> Sprintf(format, args)])

\* log.Fatalf: one record on standard error, then os.Exit(1).  os.Exit ends
\* the process at once: deferred calls are not run.
Fatalf(format, args) ==
    /\ stderr' = Append(stderr, [fatal |-> TRUE, text |-> Sprintf(format, args)])
    /\ exitCode' = 1
    /\ pc' = "exited"
    /\ UNCHANGED <<transportClient, mcpClient, deferred, calls>>

\* mcpClient.Close(): releases the client and the transport it owns.
Close ==
    /\ mcpClient' = "closed"
    /\ transportClient' = "closed"
    /\ calls' = Append(calls, Call("Close", TRUE))

----------------------------------------------------------------------------
(* The statements of main *)

\* line 17: flag.Parse()
FlagParse ==
    /\ pc = "flagParse"
    /\ \E c \in CommandLines :
           mcpURL' = IF c = "no-flag" THEN mcpURL ELSE c
    /\ pc' = "logConnecting"
    /\ UNCHANGED <<transportClient, mcpClient, err, tools, logger, idx,
                   deferred, stdout, stderr, exitCode, calls>>

\* line 20: log.Printf("Connecting to MCP server: %s", mcpURL)
LogConnecting ==
    /\ pc = "logConnecting"
    /\ LogPrintf(ConnectingFmt, <<(<<mcpURL>>)>>)
    /\ pc' = "newTransport"
    /\ UNCHANGED <<mcpURL, transportClient, mcpClient, err, tools, logger,
                   idx, deferred, stdout, exitCode, calls>>

\* line 23: transportClient, err := transport.NewSSEClientTransport(mcpURL)
NewSSEClientTransport ==
    /\ pc = "newTransport"
    /\ \/ /\ transportClient' = "open"
          /\ err' = Nil
          /\ calls' = Append(calls, Call("NewSSEClientTransport", TRUE))
       \/ /\ \E e \in TransportErrors : err' = e
          /\ calls' = Append(calls, Call("NewSSEClientTransport", FALSE))
          /\ UNCHANGED transportClient
    /\ pc' = "checkTransportErr"
    /\ UNCHANGED <<mcpURL, mcpClient, tools, logger, idx, deferred, stdout,
                   stderr, exitCode>>

\* Variant of lines 24-26 that does not stop on the error.
CheckTransportErrIgnored ==
    /\ pc = "checkTransportErr"
    /\ pc' = "newClient"
    /\ UNCHANGED <<mcpURL, transportClient, mcpClient, err, tools, logger,
                   idx, deferred, stdout, stderr, exitCode, calls>>

\* lines 24-26
CheckTransportErr ==
    /\ pc = "checkTransportErr"
    /\ IF err # Nil
       THEN Fatalf(TransportFailFmt, <<err>>)
       ELSE /\ pc' = "newClient"
            /\ UNCHANGED <<transportClient, mcpClient, deferred, calls,
                           stderr, exitCode>>
    /\ UNCHANGED <<mcpURL, err, tools, logger, idx, stdout>>

\* line 29: mcpClient, err := client.NewClient(transportClient)
NewClient ==
    /\ pc = "newClient"
    /\ \/ /\ mcpClient' = "open"
          /\ err' = Nil
          /\ calls' = Append(calls, Call("NewClient", TRUE))
       \/ /\ \E e \in ClientErrors : err' = e
          /\ calls' = Append(calls, Call("NewClient", FALSE))
          /\ UNCHANGED mcpClient
    /\ pc' = "checkClientErr"
    /\ UNCHANGED <<mcpURL, transportClient, tools, logger, idx, deferred,
                   stdout, stderr, exitCode>>

\* Variant of lines 30-32 that tries client creation again on an error.
CheckClientErrRetry ==
    /\ pc = "checkClientErr"
    /\ pc' = IF err # Nil THEN "newClient" ELSE "deferClose"
    /\ UNCHANGED <<mcpURL, transportClient, mcpClient, err, tools, logger,
                   idx, deferred, stdout, stderr, exitCode, calls>>

\* Variant of lines 30-32 that reports the failure with the listing's message.
CheckClientErrWrongMessage ==
    /\ pc = "checkClientErr"
    /\ IF err # Nil
       THEN Fatalf(ListFailFmt, <<err>>)
       ELSE /\ pc' = "deferClose"
            /\ UNCHANGED <<transportClient, mcpClient, deferred, calls,
                           stderr, exitCode>>
    /\ UNCHANGED <<mcpURL, err, tools, logger, idx, stdout>>

\* Variant of lines 30-32 that calls Close on the failed client before exiting.
CheckClientErrClosing ==
    /\ pc = "checkClientErr"
    /\ IF err # Nil
       THEN /\ Close
            /\ stderr' = Append(stderr, [fatal |-> TRUE,
                                         text |-> Sprintf(ClientFailFmt, <<err>>)])
            /\ exitCode' = 1
            /\ pc' = "exited"
            /\ UNCHANGED deferred
       ELSE /\ pc' = "deferClose"
            /\ UNCHANGED <<transportClient, mcpClient, deferred, calls,
                           stderr, exitCode>>
    /\ UNCHANGED <<mcpURL, err, tools, logger, idx, stdout>>

\* lines 30-32
CheckClientErr ==
    /\ pc = "checkClientErr"
    /\ IF err # Nil
       THEN Fatalf(ClientFailFmt, <<err>>)
       ELSE /\ pc' = "deferClose"
            /\ UNCHANGED <<transportClient, mcpClient, deferred, calls,
                           stderr, exitCode>>
    /\ UNCHANGED <<mcpURL, err, tools, logger, idx, stdout>>

\* Variant of line 33 without the defer keyword: Close runs at once.
CloseWithoutDefer ==
    /\ pc = "deferClose"
    /\ Close
    /\ pc' = "listTools"
    /\ UNCHANGED <<mcpURL, err, tools, logger, idx, deferred, stdout, stderr,
                   exitCode>>

\* line 33: defer mcpClient.Close()
DeferClose ==
    /\ pc = "deferClose"
    /\ deferred' = Append(deferred, "mcpClient.Close")
    /\ pc' = "listTools"
    /\ UNCHANGED <<mcpURL, transportClient, mcpClient, err, tools, logger,
                   idx, stdout, stderr, exitCode, calls>>

\* line 36: tools, err := mcpClient.ListTools(context.Background())
ListTools ==
    /\ pc = "listTools"
    /\ \/ /\ \E ts \in ToolLists : tools' = ts
          /\ err' = Nil
          /\ calls' = Append(calls, Call("ListTools", TRUE))
       \/ /\ \E e \in ListErrors : err' = e
          /\ calls' = Append(calls, Call("ListTools", FALSE))
          /\ UNCHANGED tools
    /\ pc' = "checkListErr"
    /\ UNCHANGED <<mcpURL, transportClient, mcpClient, logger, idx, deferred,
                   stdout, stderr, exitCode>>

\* Variant of lines 37-39 that logs the error and returns from main.
CheckListErrLogsAndReturns ==
    /\ pc = "checkListErr"
    /\ IF err # Nil
       THEN /\ LogPrintf(ListFailFmt, <<err>>)
            /\ pc' = "return"
            /\ UNCHANGED <<transportClient, mcpClient, deferred, calls,
                           exitCode>>
       ELSE /\ pc' = "newLogger"
            /\ UNCHANGED <<transportClient, mcpClient, deferred, calls,
                           stderr, exitCode>>
    /\ UNCHANGED <<mcpURL, err, tools, logger, idx, stdout>>

\* lines 37-39
CheckListErr ==
    /\ pc = "checkListErr"
    /\ IF err # Nil
       THEN Fatalf(ListFailFmt, <<err>>)
       ELSE /\ pc' = "newLogger"
            /\ UNCHANGED <<transportClient, mcpClient, deferred, calls,
                           stderr, exitCode>>
    /\ UNCHANGED <<mcpURL, err, tools, logger, idx, stdout>>

\* line 42: logger := log.New(os.Stdout, "", 0)
NewLogger ==
    /\ pc = "newLogger"
    /\ logger' = [prefix |-> <<>>, timestamps |-> FALSE]
    /\ pc' = "range"
    /\ UNCHANGED <<mcpURL, transportClient, mcpClient, err, tools, idx,
                   deferred, stdout, stderr, exitCode, calls>>

\* line 45: logger.Printf(...) formats the line and writes it to os.Stdout
\* in one Write.  Printf has no result: an error of the Write is dropped.
LoggerPrintf(format, args) ==
    \/ /\ stdout' = stdout \o LoggerOutput(logger, Sprintf(format, args))
       /\ calls' = Append(calls, Call("Write", TRUE))
    \/ /\ calls' = Append(calls, Call("Write", FALSE))
       /\ UNCHANGED stdout

\* lines 44-46: one iteration of the range loop
RangeBody ==
    /\ pc = "range"
    /\ idx < Len(tools)
    /\ LoggerPrintf(ToolLineFmt,
                    <<tools[idx + 1].Name, tools[idx + 1].Description>>)
    /\ idx' = idx + 1
    /\ UNCHANGED <<pc, mcpURL, transportClient, mcpClient, err, tools, logger,
                   deferred, stderr, exitCode>>

\* line 44: the range is exhausted, control reaches the end of main
RangeDone ==
    /\ pc = "range"
    /\ idx = Len(tools)
    /\ pc' = "return"
    /\ UNCHANGED <<mcpURL, transportClient, mcpClient, err, tools, logger,
                   idx, deferred, stdout, stderr, exitCode, calls>>

\* line 47: main returns; its deferred calls run, last deferred first
RunDeferred ==
    /\ pc = "return"
    /\ deferred # <<>>
    /\ deferred[Len(deferred)] = "mcpClient.Close"
    /\ Close
    /\ deferred' = SubSeq(deferred, 1, Len(deferred) - 1)
    /\ UNCHANGED <<pc, mcpURL, err, tools, logger, idx, stdout, stderr,
                   exitCode>>

\* line 47: main has returned, the process exits with code 0
MainReturned ==
    /\ pc = "return"
    /\ deferred = <<>>
    /\ exitCode' = 0
    /\ pc' = "exited"
    /\ UNCHANGED <<mcpURL, transportClient, mcpClient, err, tools, logger,
                   idx, deferred, stdout, stderr, calls>>

Next ==
    \/ FlagParse
    \/ LogConnecting
    \/ NewSSEClientTransport
    \/ CheckTransportErr
    \/ NewClient
    \/ CheckClientErr
    \/ DeferClose
    \/ ListTools
    \/ CheckListErr
    \/ NewLogger
    \/ RangeBody
    \/ RangeDone
    \/ RunDeferred
    \/ MainReturned

Spec == Init /\ [][Next]_vars

----------------------------------------------------------------------------
(* Properties *)

Exited == pc = "exited"

\* The calls that make up the connect and list phases.
ConnectOps == {"NewSSEClientTransport", "NewClient"}
PhaseOps   == ConnectOps \cup {"ListTools"}

ConnectFailed == \E op \in ConnectOps : Failed(op)

\* The positions of main at which a returned err is about to be tested.
CheckPoints == {"checkTransportErr", "checkClientErr", "checkListErr"}

\* Text split into its lines: a line ends at each line break.
RECURSIVE SplitFrom(_, _)
SplitFrom(s, cur) ==
    IF s = <<>> THEN (IF cur = <<>> THEN <<>> ELSE <<cur>>)
    ELSE IF Head(s) = "\n"
         THEN <<cur>> \o SplitFrom(Tail(s), <<>>)
         ELSE SplitFrom(Tail(s), Append(cur, Head(s)))

StdoutLines == SplitFrom(stdout, <<>>)

\* The line the output format prescribes for one descriptor.
ExpectedLine(t) == <<"Name: ">> \o t.Name \o <<" Description: ">> \o t.Description

\* What standard output holds when every descriptor of ts has been written.
RECURSIVE FullOutput(_)
FullOutput(ts) ==
    IF ts = <<>> THEN <<>>
    ELSE LoggerOutput([prefix |-> <<>>, timestamps |-> FALSE],
                      Sprintf(ToolLineFmt, <<Head(ts).Name, Head(ts).Description>>))
           \o FullOutput(Tail(ts))

FatalRecords == {i \in DOMAIN stderr : stderr[i].fatal}

\* The phase a reader takes a fatal message to be about.
PhaseNamedBy(text) ==
    CASE text = <<>> -> "none"
      [] text # <<>> /\ Head(text) = "Failed to create transport client: "
            -> "NewSSEClientTransport"
      [] text # <<>> /\ Head(text) = "Failed to create MCP client: "
            -> "NewClient"
      [] text # <<>> /\ Head(text) = "Failed to list tools: "
            -> "ListTools"
      [] OTHER -> "none"

\* C1: when the process has exited and a client had been created, Close has
\* been called on it exactly once.
C1_ClosedExactlyOnceAtExit ==
    (Exited /\ Succeeded("NewClient")) => Cardinality(CallsOf("Close")) = 1

\* C2: once transport creation or client creation has failed, ListTools is
\* never called and nothing is written to standard output; main is at the
\* test of that error or the process has exited, with a non-zero code.
C2_NoListAfterFailedConnect ==
    ConnectFailed =>
        /\ CallsOf("ListTools") = {}
        /\ CallsOf("Write") = {}
        /\ stdout = <<>>
        /\ pc \in {"checkTransportErr", "checkClientErr", "exited"}
        /\ Exited => exitCode # 0

C2_Witness ==
    Exited /\ ConnectFailed /\ exitCode = 1 /\ stdout = <<>>

C4_OneLinePerDescriptor ==
    (Exited /\ Succeeded("ListTools") /\ ~Failed("Write")) =>
        StdoutLines = [i \in 1..Len(tools) |-> ExpectedLine(tools[i])]

\* C5: when the process has exited, standard output holds either the
\* complete listing or nothing, and nothing when ListTools failed.
C5_AllOrNothing ==
    Exited =>
        /\ stdout = <<>> \/ stdout = FullOutput(tools)
        /\ Failed("ListTools") => stdout = <<>>

\* C6: the calls of a run are ordered connect, list, print, release: client
\* creation follows a successful transport creation, ListTools follows a
\* successful client creation, every write of a tool line follows a
\* successful ListTools, and Close follows a successful ListTools and one
\* write per descriptor and is the last call of the run.
C6_PhasesInOrder ==
    \A i \in DOMAIN calls :
        /\ calls[i].op = "NewSSEClientTransport" => i = 1
        /\ calls[i].op = "NewClient" =>
               \E j \in 1..(i - 1) : calls[j] = Call("NewSSEClientTransport", TRUE)
        /\ calls[i].op = "ListTools" =>
               \E j \in 1..(i - 1) : calls[j] = Call("NewClient", TRUE)
        /\ calls[i].op = "Write" =>
               /\ calls[i - 1].op \in {"ListTools", "Write"}
               /\ \E j \in 1..(i - 1) : calls[j] = Call("ListTools", TRUE)
        /\ calls[i].op = "Close" =>
               /\ \E j \in 1..(i - 1) : calls[j] = Call("ListTools", TRUE)
               /\ Cardinality({j \in 1..(i - 1) : calls[j].op = "Write"}) = Len(tools)
               /\ i = Len(calls)

C6_Witness ==
    Exited /\ CallsOf("Close") # {} /\ Len(tools) > 1

\* C7: when the process has exited after a write of a tool line failed, its
\* exit code is not 0.
C7_WriteErrorIsFatal ==
    (Exited /\ Failed("Write")) => exitCode # 0

\* C8: transport creation, client creation and ListTools are each called at
\* most once in a run, so at most one client is ever created.
C8_AtMostOneAttempt ==
    /\ \A op \in PhaseOps : Cardinality(CallsOf(op)) <= 1
    /\ Cardinality({i \in DOMAIN calls : calls[i] = Call("NewClient", TRUE)}) <= 1

C8_Witness ==
    /\ Exited
    /\ Failed("NewClient")
    /\ Cardinality(CallsOf("NewClient")) = 1
    /\ Cardinality(CallsOf("NewSSEClientTransport")) = 1

\* C9: a run that has exited with a non-zero code has logged exactly one
\* fatal message, as its last record; the message names the call that
\* failed and carries its error.  A run that has exited with code 0 has
\* logged none.
C9_OneFatalMessageNamingPhase ==
    /\ (Exited /\ exitCode # 0) =>
           /\ FatalRecords = {Len(stderr)}
           /\ Failed(PhaseNamedBy(stderr[Len(stderr)].text))
           /\ Tail(stderr[Len(stderr)].text) = err
    /\ (Exited /\ exitCode = 0) => FatalRecords = {}

C9_Witness ==
    Exited /\ Failed("NewSSEClientTransport") /\ FatalRecords # {}

\* C10: every Close is preceded by a successful client creation; once
\* transport creation or client creation has failed, Close is never called,
\* no client exists, and a transport that had been created stays open.
C10_CloseOnlyOnCreatedClient ==
    /\ \A i \in CallsOf("Close") :
           \E j \in 1..(i - 1) : calls[j] = Call("NewClient", TRUE)
    /\ ConnectFailed =>
           /\ CallsOf("Close") = {}
           /\ mcpClient = "nil"
           /\ Succeeded("NewSSEClientTransport") => transportClient = "open"

C10_Witness ==
    Exited /\ Failed("NewClient") /\ transportClient = "open"

====
